---- MODULE Spec2Model ----
(***************************************************************************)
(* Model of the Mega-Sena game generator (src/generator.py) and of the way *)
(* the bot constructs it (src/bot.py, generate_bets_for_concurso).         *)
(*                                                                         *)
(* Numbers that the program holds as floats are held here as exact         *)
(* rationals over a fixed denominator:                                     *)
(*   SUM_WEIGHT     in hundredths        (0.15 -> 15)                      *)
(*   BUCKET_WEIGHT  in twentieths        (0.20 -> 4)                       *)
(*   BUCKET_TARGET  in three-hundredths  (0.33 -> 99, 1/3 -> 100)          *)
(*   penalties      in units of 1/PenScale                                 *)
(*   scores         in units of 1/ScoreScale                               *)
(* A text (profile name, seed) is a sequence of one-character strings.     *)
(***************************************************************************)
EXTENDS Integers, Sequences, FiniteSets, TLC

(***************************************************************************)
(* Bounds of the model.                                                    *)
(***************************************************************************)
\* raw values one call of the pseudo-random generator can deliver
RawRange == 5
\* largest n_games a call of generate is given
MaxGames == 2
\* largest pop_size a GameGenerator is constructed with
MaxPop == 2

(***************************************************************************)
(* Program constants.                                                      *)
(***************************************************************************)
\* NUMBERS = list(range(1, 61))
NUMBERS == 1..60
\* the 6 of rng.sample(NUMBERS, 6)
TicketLen == 6
\* max_tries = self.POP_SIZE * 50
TriesFactor == 50
\* best_score = -1e18: below every score a ticket can get
NegInfScore == -2147483647
\* denominators of the exact arithmetic
PenScale == 6000
ScoreScale == 6930000

\* an optional value: None, or Some(v) when supplied
None == <<>>
Some(v) == <<v>>

(***************************************************************************)
(* Small helpers standing for Python built-ins.                            *)
(***************************************************************************)
Max(a, b) == IF a >= b THEN a ELSE b
Min(a, b) == IF a <= b THEN a ELSE b
AbsSigned(a) == a
Abs(a) == IF a >= 0 THEN a ELSE 0 - a

RECURSIVE SumSeq(_)
SumSeq(s) == IF s = <<>> THEN 0 ELSE Head(s) + SumSeq(Tail(s))

RECURSIVE SumSet(_, _)
\* sum(f[x] for x in S)
SumSet(S, f) ==
    IF S = {} THEN 0
    ELSE LET x == CHOOSE y \in S : TRUE IN f[x] + SumSet(S \ {x}, f)

Range(s) == {s[i] : i \in DOMAIN s}

\* sum(1 for x in t if x in S)
Count(t, S) == Cardinality({i \in DOMAIN t : t[i] \in S})

\* sorted(t)
sorted(t) == SortSeq(t, LAMBDA a, b : a < b)

\* x in seq
InSeq(x, s) == \E i \in DOMAIN s : s[i] = x

(***************************************************************************)
(* str(profile).lower().strip()                                            *)
(***************************************************************************)
Upper == <<"A", "H", "I", "L", "M", "O", "R", "S", "T", "C">>
Lower == <<"a", "h", "i", "l", "m", "o", "r", "s", "t", "c">>
Whitespace == {" ", "\t", "\n"}

lower_char(c) ==
    IF \E k \in DOMAIN Upper : Upper[k] = c
    THEN Lower[CHOOSE k \in DOMAIN Upper : Upper[k] = c]
    ELSE c

lower(s) == [i \in DOMAIN s |-> lower_char(s[i])]

RECURSIVE lstrip(_)
lstrip(s) ==
    IF s # <<>> /\ Head(s) \in Whitespace THEN lstrip(Tail(s)) ELSE s

RECURSIVE rstrip(_)
rstrip(s) ==
    IF s # <<>> /\ s[Len(s)] \in Whitespace
    THEN rstrip(SubSeq(s, 1, Len(s) - 1))
    ELSE s

strip(s) == rstrip(lstrip(s))

Misto == <<"m", "i", "s", "t", "o">>
Alto == <<"a", "l", "t", "o">>
Historico == <<"h", "i", "s", "t", "o", "r", "i", "c", "o">>

(***************************************************************************)
(* Module-level functions of generator.py                                  *)
(***************************************************************************)
\* (n-1)//10 + 1
_decenio_of_tens(n) == (n \div 10) + 1
_decenio(n) == ((n - 1) \div 10) + 1

RECURSIVE LongRun(_, _, _, _)
\* the loop of _has_long_sequence from position i with the current run
LongRun(t, i, run, L) ==
    IF i >= Len(t) THEN FALSE
    ELSE IF t[i + 1] = t[i] + 1
         THEN IF run + 1 >= L THEN TRUE ELSE LongRun(t, i + 1, run + 1, L)
         ELSE LongRun(t, i + 1, 1, L)

_has_long_sequence(ticket, L) == LongRun(sorted(ticket), 1, 1, L)

(***************************************************************************)
(* GameGenerator.__init__                                                  *)
(* a: the keyword arguments of the constructor, one field per parameter.   *)
(***************************************************************************)
\* the defaults of the signature of __init__
DefaultArgs ==
    [seed |-> <<"M">>, sum_band |-> None, profile |-> Historico,
     sum_target |-> None, sum_weight |-> None, bucket_target |-> None,
     bucket_weight |-> 4, min_over31 |-> 3, min_high |-> 1,
     odd_range |-> <<2, 4>>, max_same_decenio |-> 4, max_same_ending |-> 2,
     max_mult5 |-> 3, max_exposure |-> 4, pop_size |-> 6000,
     candidates_per_pick |-> 1200, display_shuffle |-> TRUE]

\* the profile the constructor resolves a name to
PROFILE_of(profile) == strip(lower(profile))

\* "Defaults por perfil": the if / elif / else over self.PROFILE
ProfileDefaultsElseMisto(PROFILE) ==
    IF PROFILE = Historico
    THEN [sum_target |-> 145, sum_weight |-> 15,
          bucket_target |-> <<99, 99, 102>>, min_high |-> 1]
    ELSE IF PROFILE = Alto
    THEN [sum_target |-> 260, sum_weight |-> 5,
          bucket_target |-> <<45, 90, 165>>, min_high |-> 3]
    ELSE [sum_target |-> 183, sum_weight |-> 10,
          bucket_target |-> <<100, 100, 100>>, min_high |-> 1]
ProfileDefaults(PROFILE) ==
    IF PROFILE = Misto
    THEN [sum_target |-> 183, sum_weight |-> 10,
          bucket_target |-> <<100, 100, 100>>, min_high |-> 1]
    ELSE IF PROFILE = Alto
    THEN [sum_target |-> 260, sum_weight |-> 5,
          bucket_target |-> <<45, 90, 165>>, min_high |-> 3]
    ELSE [sum_target |-> 145, sum_weight |-> 15,
          bucket_target |-> <<99, 99, 102>>, min_high |-> 1]

\* self.MIN_HIGH = max(int(min_high), min_high_default)
ResolveMinHighOverride(min_high, min_high_default) == min_high
ResolveMinHigh(min_high, min_high_default) == Max(min_high, min_high_default)

GameGenerator(a) ==
    LET PROFILE == PROFILE_of(a.profile)
        d == ProfileDefaults(PROFILE)
    IN [seed |-> a.seed,
        SUM_BAND |-> a.sum_band,
        PROFILE |-> PROFILE,
        BUCKET_WEIGHT |-> a.bucket_weight,
        SUM_TARGET |-> IF a.sum_target = None THEN d.sum_target
                       ELSE a.sum_target[1],
        SUM_WEIGHT |-> IF a.sum_weight = None THEN d.sum_weight
                       ELSE a.sum_weight[1],
        BUCKET_TARGET |-> IF a.bucket_target = None THEN d.bucket_target
                          ELSE a.bucket_target[1],
        MIN_OVER_31 |-> a.min_over31,
        MIN_HIGH |-> ResolveMinHigh(a.min_high, d.min_high),
        ODD_RANGE |-> a.odd_range,
        MAX_SAME_DECENIO |-> a.max_same_decenio,
        MAX_SAME_ENDING |-> a.max_same_ending,
        MAX_MULT_5 |-> a.max_mult5,
        MAX_EXPOSURE |-> a.max_exposure,
        POP_SIZE |-> a.pop_size,
        CANDIDATES_PER_PICK |-> a.candidates_per_pick,
        DISPLAY_SHUFFLE |-> a.display_shuffle]

(***************************************************************************)
(* bot.py, generate_bets_for_concurso: the arguments it constructs the     *)
(* generator with.  The numeric options are None when not supplied.  A     *)
(* text is only tested with "or", which takes None and the empty text      *)
(* alike, so both are the empty sequence here.                             *)
(***************************************************************************)
Falsy(x) == x = <<>>

BotArgs(seed, shuf, profile, env_var, min_high, sum_target, sum_weight, bw) ==
    LET env_profile == IF Falsy(lower(strip(env_var))) THEN None
                       ELSE lower(strip(env_var))
        effective_profile ==
            lower(IF ~Falsy(profile) THEN profile
                  ELSE IF ~Falsy(env_profile) THEN env_profile
                  ELSE Historico)
    IN [DefaultArgs EXCEPT
          !.seed = seed,
          !.display_shuffle = shuf,
          !.profile = effective_profile,
          !.min_high = IF min_high # None THEN min_high[1] ELSE 1,
          !.sum_target = sum_target,
          !.sum_weight = sum_weight,
          !.bucket_weight = IF bw # None THEN bw[1] ELSE 4]

(***************************************************************************)
(* GameGenerator._ticket_ok                                                *)
(***************************************************************************)
\* the numbers of NUMBERS a test of the validator or the penalty counts
Over31 == {x \in NUMBERS : x > 31}
High == {x \in NUMBERS : x >= 41}
Odd == {x \in NUMBERS : x % 2 = 1}
Mult5 == {x \in NUMBERS : x % 5 = 0}
Bucket1 == {x \in NUMBERS : x <= 20}
Bucket2 == {x \in NUMBERS : 21 <= x /\ x <= 40}

\* Counter(_decenio(x) for x in t): the keys present, with their counts
dec_counts(t) ==
    [d \in {_decenio(t[i]) : i \in DOMAIN t} |->
        Cardinality({i \in DOMAIN t : _decenio(t[i]) = d})]

\* Counter(x % 10 for x in t)
end_counts(t) ==
    [e \in {t[i] % 10 : i \in DOMAIN t} |->
        Cardinality({i \in DOMAIN t : t[i] % 10 = e})]

_ticket_ok(self, ticket) ==
    LET t == sorted(ticket)
        s == SumSeq(t)
        odds == Count(t, Odd)
    IN IF self.SUM_BAND # None
          /\ ~(self.SUM_BAND[1] <= s /\ s <= self.SUM_BAND[2])
       THEN FALSE
       ELSE IF Count(t, Over31) < self.MIN_OVER_31
       THEN FALSE
       ELSE IF self.MIN_HIGH > 0 /\ Count(t, High) < self.MIN_HIGH
       THEN FALSE
       ELSE IF ~(self.ODD_RANGE[1] <= odds /\ odds <= self.ODD_RANGE[2])
       THEN FALSE
       ELSE IF \E d \in DOMAIN dec_counts(t) :
                  dec_counts(t)[d] > self.MAX_SAME_DECENIO
       THEN FALSE
       ELSE IF \E e \in DOMAIN end_counts(t) :
                  end_counts(t)[e] > self.MAX_SAME_ENDING
       THEN FALSE
       ELSE IF Count(t, Mult5) > self.MAX_MULT_5
       THEN FALSE
       ELSE IF _has_long_sequence(t, 3)
       THEN FALSE
       ELSE TRUE

(***************************************************************************)
(* GameGenerator._anti_popularity_penalty, in units of 1/PenScale          *)
(***************************************************************************)
_anti_popularity_penalty(self, ticket) ==
    LET t == sorted(ticket)
        penA == IF self.SUM_WEIGHT > 0
                THEN self.SUM_WEIGHT * Abs(SumSeq(t) - self.SUM_TARGET)
                ELSE 0
        b1 == Count(t, Bucket1)
        b2 == Count(t, Bucket2)
        b3 == 6 - b1 - b2
        props == <<50 * b1, 50 * b2, 50 * b3>>
        bucket_dist == SumSeq([i \in 1..3 |->
                                  Abs(props[i] - self.BUCKET_TARGET[i])])
        penB == self.BUCKET_WEIGHT * bucket_dist
        ec == end_counts(t)
        penC == SumSet(DOMAIN ec, [e \in DOMAIN ec |-> Max(0, ec[e] - 1)])
                   * 1800
        dc == dec_counts(t)
        penD == SumSet(DOMAIN dc, [d \in DOMAIN dc |-> Max(0, dc[d] - 2)])
                   * 2400
        penE == Max(0, Count(t, Mult5) - 2) * 3000
    IN penA + penB + penC + penD + penE

(***************************************************************************)
(* _pairs_of, _triples_of, _jaccard                                        *)
(***************************************************************************)
_pairs_of(t) ==
    {<<t[i], t[j]>> : <<i, j>> \in
        {p \in (DOMAIN t) \X (DOMAIN t) : p[1] < p[2]}}

_triples_of(t) ==
    {<<t[p[1]], t[p[2]], t[p[3]]>> : p \in
        {q \in (DOMAIN t) \X (DOMAIN t) \X (DOMAIN t) :
            q[1] < q[2] /\ q[2] < q[3]}}

\* inter / union, in units of 1/ScoreScale
_jaccard(a, b) ==
    LET A == Range(a)
        B == Range(b)
        inter == Cardinality(A \cap B)
        union == Cardinality(A \cup B)
    IN IF union # 0 THEN (inter * ScoreScale) \div union ELSE 0

(***************************************************************************)
(* The pseudo-random generator, self.rng = random.Random(seed).            *)
(* One call of the generator turns one raw value r of its stream into the  *)
(* call's outcome; the stream is a function of the seed and the position.  *)
(***************************************************************************)
Raw == 0..(RawRange - 1)

\* the outcomes of rng.sample(NUMBERS, 6) the model draws from, as drawn
\* (unsorted): three tickets valid under the defaults (the first two
\* disjoint and of equal penalty: the same sum, bucket counts and
\* repetitions; the third sharing 5 and 33 with the first and the only one
\* valid under alto), one with the run 23-24-25, and the first ticket again
\* in another order
Draws ==
    << <<47, 5, 33, 12, 54, 38>>,
       <<53, 6, 37, 11, 48, 34>>,
       <<20, 56, 5, 33, 51, 44>>,
       <<24, 60, 23, 50, 25, 40>>,
       <<12, 38, 5, 54, 47, 33>> >>

\* rng.sample(NUMBERS, 6)
sample_numbers(r) == Draws[(r % Len(Draws)) + 1]

RECURSIVE SampleLoop(_, _, _, _, _)
\* the selection loop of random.sample: result[i] = pool[j];
\* pool[j] = pool[n-i-1], with j = randbelow(n-i) taken from r
SampleLoop(pool, n, k, i, r) ==
    IF i >= k THEN <<>>
    ELSE LET j == r % (n - i)
             moved == [pool EXCEPT ![j + 1] = pool[n - i]]
         IN <<pool[j + 1]>> \o SampleLoop(moved, n, k, i + 1, r \div (n - i))

\* rng.sample(population, k), for 0 <= k <= len(population)
sample(population, k, r) == SampleLoop(population, Len(population), k, 0, r)

RECURSIVE ShuffleLoop(_, _, _)
\* the loop of random.shuffle: for i in reversed(range(1, len(x))):
\* j = randbelow(i+1); x[i], x[j] = x[j], x[i]
ShuffleLoop(x, i, r) ==
    IF i < 1 THEN x
    ELSE LET j == r % (i + 1)
             swapped == [x EXCEPT ![i + 1] = x[j + 1], ![j + 1] = x[i + 1]]
         IN ShuffleLoop(swapped, i - 1, r \div (i + 1))

\* rng.shuffle(l)
shuffle(l, r) == ShuffleLoop(l, Len(l) - 1, r)

\* _shuffle_for_display
_shuffle_with_replacement(t, r) == [k \in DOMAIN t |-> t[(r % Len(t)) + 1]]
_shuffle_for_display(t, r) == shuffle(t, r)

(***************************************************************************)
(* candidates is a Python set of tuples of ints while the pool is built:   *)
(* held here as the sequence of its members in insertion order.            *)
(* list(candidates) walks the hash table: the order is a function of the   *)
(* members' hashes and of the insertion order, never of the process (the   *)
(* hash of a tuple of ints is not salted).                                 *)
(***************************************************************************)
\* candidates.add(t)
SetAddDup(c, t) == Append(c, t)
SetAdd(c, t) == IF InSeq(t, c) THEN c ELSE Append(c, t)

RECURSIVE TupleHash(_)
TupleHash(t) ==
    IF t = <<>> THEN 7 ELSE (31 * TupleHash(Tail(t)) + Head(t)) % 64

HashSlot(t) == TupleHash(t) % 8

\* list(candidates)
ListOfSet(c) ==
    LET before(i, j) == \/ HashSlot(c[i]) < HashSlot(c[j])
                        \/ HashSlot(c[i]) = HashSlot(c[j]) /\ i < j
        order == SortSeq([i \in DOMAIN c |-> i], before)
    IN [k \in DOMAIN c |-> c[order[k]]]

(***************************************************************************)
(* State.  Two GameGenerator objects are modelled, 1 and 2, so that two    *)
(* runs can be compared; every variable is indexed by the object.          *)
(***************************************************************************)
Instances == {1, 2}

VARIABLES
    ctor,   \* the keyword arguments the object was constructed with
    gen,    \* the fields __init__ sets (self.*); <<>> before construction
    rng,    \* self.rng: its stream and its position in the stream
    run,    \* the object's generate call: its arguments, locals and result
            \*   pc              where the call stands
            \*   n_games         argument
            \*   balanced        argument
            \*   candidates      the candidate pool
            \*   tries           draws made while building the pool
            \*   selected        tickets picked so far, in order
            \*   covered_pairs   pairs of the tickets picked
            \*   covered_triples triples of the tickets picked
            \*   exposure        Counter of appearances per number counted
            \*   local_max_exp   exposure cap of this call
            \*   slot            iterations of the main loop completed
            \*   pool            the window sampled for the current slot
            \*   best            the ticket the last scan chose, <<>> if None
            \*   fallbacks       picks chosen by the cap-ignoring pass
            \*   topups          picks made by the top-up loop
            \*   result          the value generate returned
            \*   earlier         the values the object's earlier calls returned
    bot     \* the bot process (bot.py): its clock, the cache file
            \* last_megasena.json and the fetch_megasena call in progress
            \*   now             the wall clock, in hours
            \*   cache           <<>> when the file is absent, else the
            \*                   payload <<[saved_at, megasena]>>
            \*   pc              where fetch_megasena stands
            \*   attempt         attempts made by the _fetch_json in progress
            \*   tried           the sources consulted by this call, in
            \*                   order, each with how it ended
            \*   out             what the call returned, <<>> if nothing
            \* and, where check_feed_loop and the commands run:
            \*   file            state.json: channels (the pairs <<guild,
            \*                   channel>> in the order of the dict),
            \*                   last_processed_concurso, reminder_sent_for
            \*   bets            the concursos with a saved bets file
            \*   st              the state the poll in progress loaded
            \*   ms              the draw the poll in progress fetched
            \*   queue           the channels the running loop has yet to
            \*                   send to
            \*   polls, cmds     the polls started and the commands run
            \*   sent            how many times each message was sent,
            \*                   by <<kind, concurso, channel>>

vars == <<ctor, gen, rng, run, bot>>

\* random.Random(seed) of object obj: the stream is set by the seed alone
NewRandomUnseeded(obj, seed) == [stream |-> <<obj>>, pos |-> 0]
NewRandom(obj, seed) == [stream |-> seed, pos |-> 0]

\* the locals of an object no generate call has touched
IdleRun ==
    [pc |-> "idle", n_games |-> 0, balanced |-> FALSE, candidates |-> <<>>,
     tries |-> 0, selected |-> <<>>, covered_pairs |-> {},
     covered_triples |-> {}, exposure |-> <<>>,
     local_max_exp |-> 0, slot |-> 0, pool |-> <<>>, best |-> <<>>,
     fallbacks |-> 0, topups |-> 0, result |-> <<>>, earlier |-> <<>>]

\* the bot before any fetch: no cache file, the clock at 0
BotIdle ==
    [now |-> 0, cache |-> <<>>, pc |-> "idle", attempt |-> 0,
     tried |-> <<>>, out |-> <<>>]

(***************************************************************************)
(* Initial states.                                                         *)
(***************************************************************************)
Seeds == {<<"M">>}
PopSizes == 0..MaxPop

\* profile, candidates_per_pick and max_exposure of the generators of the
\* model: a window of two under both profiles, then one keyword changed,
\* and a negative max_exposure
Configs ==
    {<<Historico, 2, 4>>, <<Alto, 2, 4>>,
     <<Historico, 1, 4>>, <<Historico, 0, 4>>, <<Historico, -1, 4>>,
     <<Historico, 2, 0>>, <<Historico, 1, -1>>}

\* the configurations that are run with every pool size; the others are
\* run with a pool of at most one ticket
WindowOfTwo == {c \in Configs : c[2] = 2 /\ c[3] = 4}

\* the keyword arguments the generators of the model are constructed with
GenArgs ==
    {[DefaultArgs EXCEPT !.seed = sd, !.profile = x[2][1], !.pop_size = x[1],
                         !.candidates_per_pick = x[2][2],
                         !.max_exposure = x[2][3],
                         !.display_shuffle = TRUE] :
        sd \in Seeds,
        x \in {y \in PopSizes \X Configs : y[2] \in WindowOfTwo \/ y[1] <= 1}}

\* two objects constructed with the same arguments, but for display_shuffle:
\* the first shuffles, the second may
Init ==
    /\ \E a \in GenArgs, ds2 \in BOOLEAN :
          /\ ctor = <<a, [a EXCEPT !.display_shuffle = ds2]>>
          /\ gen = <<GameGenerator(a),
                     GameGenerator([a EXCEPT !.display_shuffle = ds2])>>
          /\ rng = [i \in Instances |-> NewRandom(i, a.seed)]
    /\ run = [i \in Instances |-> IdleRun]
    /\ bot = BotIdle

(***************************************************************************)
(* An action steps every object that stands at that step.  Two objects     *)
(* that make the same call at the same position of the same stream get     *)
(* the same raw values; otherwise the values are unrelated.                *)
(***************************************************************************)
\* call[i] is the call object i makes
SameDraw(i, j, call) ==
    /\ rng[i].stream = rng[j].stream
    /\ rng[i].pos = rng[j].pos
    /\ call[i] = call[j]

\* the raw values the objects in E can get for call[i], k[i] values each
RawChoices(E, call, k) ==
    LET K(i) == IF i \in E THEN k[i] ELSE 0
    IN IF E = Instances /\ SameDraw(1, 2, call) /\ K(1) = K(2)
       THEN {<<x, x>> : x \in [1..K(1) -> Raw]}
       ELSE [1..K(1) -> Raw] \X [1..K(2) -> Raw]

\* the generators after delivering rs to the objects in E.  Only the
\* distance between two positions matters, so positions are counted from
\* the least advanced generator.
Advance(E, rs) ==
    LET to(i) == IF i \in E THEN rng[i].pos + Len(rs[i]) ELSE rng[i].pos
        low == Min(to(1), to(2))
    IN [i \in Instances |-> [rng[i] EXCEPT !.pos = to(i) - low]]

(***************************************************************************)
(* generate: the closures feasible and score, and the scans of a window.   *)
(* self is the object's fields, r the locals of its call.                  *)
(***************************************************************************)
\* local_max_exp = 1 if (balanced and n_games * 6 <= len(NUMBERS))
\*                 else self.MAX_EXPOSURE
LocalMaxExp(self, n, bal) ==
    IF bal /\ n * 6 <= Cardinality(NUMBERS) THEN 1 ELSE self.MAX_EXPOSURE

\* exposure = Counter(): exposure[x] is 0 for a number never counted
Exposure(exp, x) == IF x \in DOMAIN exp THEN exp[x] ELSE 0

\* all(exposure[x] < local_max_exp for x in t)
feasibleInclusive(t, exp, cap) ==
    \A k \in DOMAIN t : Exposure(exp, t[k]) <= cap
feasible(t, exp, cap) == \A k \in DOMAIN t : Exposure(exp, t[k]) < cap

\* the divisor of the exposure term: max(1, local_max_exp)
ExposureDivisorIsCap(cap) == cap
ExposureDivisor(cap) == Max(1, cap)

\* 3.0 * p_new + 1.5 * tr_new - 2.5 * overlap_pen - 1.8 * ap_pen
TopUpScore(self, r, t) ==
    LET p_new == Cardinality(_pairs_of(t) \ r.covered_pairs)
        tr_new == Cardinality(_triples_of(t) \ r.covered_triples)
        overlap_pen == SumSeq([k \in DOMAIN r.selected |->
                                  _jaccard(t, r.selected[k])])
        ap_pen == _anti_popularity_penalty(self, t)
    IN (3 * ScoreScale) * p_new
       + ((3 * ScoreScale) \div 2) * tr_new
       - (5 * overlap_pen) \div 2
       - (9 * ap_pen * (ScoreScale \div PenScale)) \div 5

\* score(t) of the main loop: the same, less the exposure term
\* sum(exposure[x] / max(1, local_max_exp) for x in t) * 0.3
score(self, r, t) ==
    LET exp_pen == SumSeq([k \in DOMAIN t |->
                     (Exposure(r.exposure, t[k]) * ((3 * ScoreScale) \div 10))
                        \div ExposureDivisor(r.local_max_exp)])
    IN TopUpScore(self, r, t) - exp_pen

\* "if sc > best_score": the comparison that lets a ticket replace the best
BetterOrEqual(sc, best_score) == sc >= best_score
Better(sc, best_score) == sc > best_score

RECURSIVE Scan(_, _, _, _, _)
\* "for t in pool": k is the position reached, acc the best so far,
\* skip[k] tells that the pass passes over pool[k], sc[k] is its score
Scan(w, skip, sc, k, acc) ==
    IF k > Len(w) THEN acc
    ELSE IF skip[k] THEN Scan(w, skip, sc, k + 1, acc)
    ELSE IF Better(sc[k], acc.best_score)
         THEN Scan(w, skip, sc, k + 1, [best |-> w[k], best_score |-> sc[k]])
         ELSE Scan(w, skip, sc, k + 1, acc)

\* best, best_score = None, -1e18
NoBest == [best |-> None, best_score |-> NegInfScore]

\* score(t) for every ticket of window w
Scores(self, r, w) == [k \in DOMAIN w |-> score(self, r, w[k])]

\* first pass of the main loop: "if not feasible(t): continue"
FirstPassSkippingFeasible(self, r, w) ==
    Scan(w, [k \in DOMAIN w |-> feasible(w[k], r.exposure, r.local_max_exp)],
         Scores(self, r, w), 1, NoBest)
FirstPass(self, r, w) ==
    Scan(w, [k \in DOMAIN w |-> ~feasible(w[k], r.exposure, r.local_max_exp)],
         Scores(self, r, w), 1, NoBest)

\* second pass: every ticket of the window
SecondPassMissing(self, r, w) == NoBest
SecondPass(self, r, w) ==
    Scan(w, [k \in DOMAIN w |-> FALSE], Scores(self, r, w), 1, NoBest)

\* the scan of the top-up loop
TopUpPass(self, r, w) ==
    Scan(w, [k \in DOMAIN w |-> FALSE],
         [k \in DOMAIN w |-> TopUpScore(self, r, w[k])], 1, NoBest)

\* the two passes of one slot: the best, and whether the second pass chose
ChooseBest(self, r, w) ==
    LET first == FirstPass(self, r, w)
    IN IF first.best = None
       THEN [best |-> SecondPass(self, r, w).best, second |-> TRUE]
       ELSE [best |-> first.best, second |-> FALSE]

\* for x in best: exposure[x] += 1
ExposeOnce(exp, t) == [x \in (DOMAIN exp) \cup Range(t) |-> 1]
Expose(exp, t) ==
    [x \in (DOMAIN exp) \cup Range(t) |->
        IF x \in Range(t) THEN Exposure(exp, x) + 1 ELSE exp[x]]

(***************************************************************************)
(* generate, step by step.  At...(i) tells that object i stands at the     *)
(* step, ...Step gives the locals of its call after the step.              *)
(***************************************************************************)
GamesArgs == 0..MaxGames

AtCall(i) == run[i].pc = "idle"

\* entry of generate(n_games, balanced): candidates = set(); tries = 0
CallStep(r, n, b) ==
    [r EXCEPT !.pc = "build", !.n_games = n, !.balanced = b,
              !.candidates = <<>>, !.tries = 0]

\* while len(candidates) < self.POP_SIZE and tries < max_tries
BuildMoreOffByOne(self, r) ==
    /\ Len(r.candidates) < self.POP_SIZE
    /\ r.tries <= self.POP_SIZE * TriesFactor
BuildMore(self, r) ==
    /\ Len(r.candidates) < self.POP_SIZE
    /\ r.tries < self.POP_SIZE * TriesFactor

AtDraw(i) == run[i].pc = "build" /\ BuildMore(gen[i], run[i])

\* one iteration of the pool-building loop
DrawStep(self, r, raw) ==
    LET t == sorted(sample_numbers(raw))
    IN [r EXCEPT !.tries = @ + 1,
                 !.candidates = IF _ticket_ok(self, t) THEN SetAdd(@, t)
                                ELSE @]

\* past the pool-building loop: candidates = list(candidates), the
\* selection state is set up and the main loop is entered.  tries is not
\* read after the loop and is dropped here.
StartSelectStep(self, r) ==
    [r EXCEPT !.candidates = ListOfSet(@),
              !.tries = 0,
              !.selected = <<>>,
              !.covered_pairs = {},
              !.covered_triples = {},
              !.exposure = <<>>,
              !.local_max_exp = LocalMaxExp(self, r.n_games, r.balanced),
              !.slot = 0,
              !.pc = IF r.n_games > 0 THEN "select" ELSE "topup"]

\* the test of the while: into the loop body, or on past the loop
LoopTest(self, r) ==
    IF BuildMore(self, r) THEN r ELSE StartSelectStep(self, r)

\* pool_size = min(self.CANDIDATES_PER_PICK, len(candidates))
PoolSize(self, r) == Min(self.CANDIDATES_PER_PICK, Len(r.candidates))

\* the call rng.sample(candidates, pool_size) is reached and does not raise
Samples(self, r) == r.candidates # <<>> /\ PoolSize(self, r) >= 0

\* pool = self.rng.sample(candidates, pool_size): a display shuffle consumed
\* before the window is sampled would shift the raw value the sample gets
WindowAfterShuffle(self, r, raw) ==
    sample(r.candidates, PoolSize(self, r),
           IF self.DISPLAY_SHUFFLE THEN raw + 1 ELSE raw)
Window(self, r, raw) == sample(r.candidates, PoolSize(self, r), raw)

\* selected.append(best); covered_pairs |= ...; covered_triples |= ...
Select(r, b) ==
    [r EXCEPT !.selected = Append(@, b),
              !.covered_pairs = @ \cup _pairs_of(b),
              !.covered_triples = @ \cup _triples_of(b)]

AtPick(i) == run[i].pc = "select"

\* one iteration of "for _ in range(n_games)"
PickStep(self, r, raw) ==
    IF r.candidates = <<>>
    THEN \* if not candidates: break
         [r EXCEPT !.pc = "topup"]
    ELSE IF PoolSize(self, r) < 0
    THEN \* rng.sample raises ValueError
         [r EXCEPT !.pc = "raised"]
    ELSE LET w == Window(self, r, raw)
             c == ChooseBest(self, r, w)
             seen == [r EXCEPT !.pool = w, !.best = c.best]
         IN IF c.best = None
            THEN \* if best is None: break
                 [seen EXCEPT !.pc = "topup"]
            ELSE [Select(seen, c.best) EXCEPT
                    !.exposure = Expose(@, c.best),
                    !.fallbacks = IF c.second THEN @ + 1 ELSE @,
                    !.slot = @ + 1,
                    !.pc = IF r.slot + 1 < r.n_games THEN "select"
                           ELSE "topup"]

\* while len(selected) < n_games and candidates
TopUpMoreOffByOne(r) == Len(r.selected) <= r.n_games /\ r.candidates # <<>>
TopUpMore(r) == Len(r.selected) < r.n_games /\ r.candidates # <<>>

AtTopUp(i) == run[i].pc = "topup" /\ TopUpMore(run[i])

\* one iteration of the top-up loop
TopUpStep(self, r, raw) ==
    IF PoolSize(self, r) < 0
    THEN [r EXCEPT !.pc = "raised"]
    ELSE LET w == Window(self, r, raw)
             b == TopUpPass(self, r, w).best
             seen == [r EXCEPT !.pool = w, !.best = b]
         IN IF b = None
            THEN [seen EXCEPT !.pc = "output"]
            ELSE [Select(seen, b) EXCEPT !.topups = @ + 1]

AtReturn(i) ==
    \/ run[i].pc = "output"
    \/ run[i].pc = "topup" /\ ~TopUpMore(run[i])

\* the raw values the return consumes: one shuffle per selected ticket
ReturnDraws(self, r) == IF self.DISPLAY_SHUFFLE THEN Len(r.selected) ELSE 0

\* "3) Saida": the display order of every selected ticket, and the return
ReturnStep(self, r, raws) ==
    [r EXCEPT !.pc = "returned",
              !.result =
                 IF self.DISPLAY_SHUFFLE
                 THEN [k \in DOMAIN r.selected |->
                          _shuffle_for_display(r.selected[k], raws[k])]
                 ELSE [k \in DOMAIN r.selected |-> sorted(r.selected[k])]]

(***************************************************************************)
(* Actions.                                                                *)
(***************************************************************************)
\* both objects are given the same call
Call ==
    LET E == {i \in Instances : AtCall(i)}
    IN /\ E # {}
       /\ \E n \in GamesArgs, b \in BOOLEAN :
             run' = [i \in Instances |->
                        IF i \in E
                        THEN LoopTest(gen[i], CallStep(run[i], n, b))
                        ELSE run[i]]
       /\ UNCHANGED <<ctor, gen, rng, bot>>

Draw ==
    LET E == {i \in Instances : AtDraw(i)}
        call == [i \in Instances |->
                    <<"sample", Cardinality(NUMBERS), TicketLen>>]
        k == [i \in Instances |-> 1]
    IN /\ E # {}
       /\ \E rs \in RawChoices(E, call, k) :
             /\ run' = [i \in Instances |->
                          IF i \in E
                          THEN LoopTest(gen[i],
                                        DrawStep(gen[i], run[i], rs[i][1]))
                          ELSE run[i]]
             /\ rng' = Advance(E, rs)
       /\ UNCHANGED <<ctor, gen, bot>>

\* the call rng.sample(candidates, pool_size) of every object, and the
\* raw values it takes
SampleCall ==
    [i \in Instances |->
        <<"sample", Len(run[i].candidates), PoolSize(gen[i], run[i])>>]
SampleDraws ==
    [i \in Instances |-> IF Samples(gen[i], run[i]) THEN 1 ELSE 0]

Pick ==
    LET E == {i \in Instances : AtPick(i)}
    IN /\ E # {}
       /\ \E rs \in RawChoices(E, SampleCall, SampleDraws) :
             /\ run' = [i \in Instances |->
                          IF i \in E
                          THEN PickStep(gen[i], run[i],
                                        IF rs[i] = <<>> THEN 0 ELSE rs[i][1])
                          ELSE run[i]]
             /\ rng' = Advance(E, rs)
       /\ UNCHANGED <<ctor, gen, bot>>

TopUp ==
    LET E == {i \in Instances : AtTopUp(i)}
    IN /\ E # {}
       /\ \E rs \in RawChoices(E, SampleCall, SampleDraws) :
             /\ run' = [i \in Instances |->
                          IF i \in E
                          THEN TopUpStep(gen[i], run[i],
                                         IF rs[i] = <<>> THEN 0 ELSE rs[i][1])
                          ELSE run[i]]
             /\ rng' = Advance(E, rs)
       /\ UNCHANGED <<ctor, gen, bot>>

Return ==
    LET E == {i \in Instances : AtReturn(i)}
        call == [i \in Instances |->
                    <<"shuffle", ReturnDraws(gen[i], run[i])>>]
        k == [i \in Instances |-> ReturnDraws(gen[i], run[i])]
    IN /\ E # {}
       /\ \E rs \in RawChoices(E, call, k) :
             /\ run' = [i \in Instances |->
                          IF i \in E THEN ReturnStep(gen[i], run[i], rs[i])
                          ELSE run[i]]
             /\ rng' = Advance(E, rs)
       /\ UNCHANGED <<ctor, gen, bot>>

(***************************************************************************)
(* Construction: GameGenerator(...) called directly, and called by the     *)
(* bot's generate_bets_for_concurso.  Both objects are constructed with    *)
(* the same arguments, but for display_shuffle.                            *)
(***************************************************************************)
\* largest min_high the constructor is given
MaxMinHigh == 4

ProfileNames ==
    {Historico, Misto, Alto,
     <<"A", "L", "T", "O">>,
     <<" ", "M", "i", "s", "t", "o", "\n">>,
     <<"H", "i", "s", "t", "o", "r", "i", "c", "o", " ">>,
     <<"l", "o", "t", "o">>,
     <<"a", "l", " ", "t", "o">>,
     <<>>}
MinHighs == (-1)..MaxMinHigh
SumTargets == {None, Some(200)}
SumWeights == {None, Some(0)}
BucketTargets == {None, Some(<<100, 100, 100>>)}

CtorArgs ==
    {[DefaultArgs EXCEPT !.profile = pr, !.min_high = mh, !.sum_target = st,
                         !.sum_weight = sw, !.bucket_target = bt] :
        pr \in ProfileNames, mh \in MinHighs, st \in SumTargets,
        sw \in SumWeights, bt \in BucketTargets}

Unbuilt == [IdleRun EXCEPT !.pc = "new"]

InitCtor ==
    /\ ctor = [i \in Instances |-> <<>>]
    /\ gen = [i \in Instances |-> <<>>]
    /\ rng = [i \in Instances |-> [stream |-> <<>>, pos |-> 0]]
    /\ run = [i \in Instances |-> Unbuilt]
    /\ bot = BotIdle

\* the two objects, constructed with a and with a but for display_shuffle
Built(a, ds2) ==
    LET b == [a EXCEPT !.display_shuffle = ds2]
    IN /\ ctor' = <<a, b>>
       /\ gen' = <<GameGenerator(a), GameGenerator(b)>>
       /\ rng' = [i \in Instances |-> NewRandom(i, a.seed)]
       /\ run' = [i \in Instances |-> IdleRun]
       /\ UNCHANGED bot

Construct ==
    /\ \A i \in Instances : run[i].pc = "new"
    /\ \E a \in CtorArgs, ds2 \in BOOLEAN : Built(a, ds2)

\* seed = f"MEGASENA-{concurso}-{seed_suffix}{salt}"
BotSeed(concurso, seed_suffix, salt) ==
    <<"MEGASENA-", concurso, "-", seed_suffix>> \o salt

\* salt = "" unless novos; then "-NEW-<now>-<random>"
Salts(novos) == IF novos THEN {<<"-NEW-", "t1", "7">>, <<"-NEW-", "t2", "3">>}
                ELSE {<<>>}

generate_bets_for_concurso ==
    /\ \A i \in Instances : run[i].pc = "new"
    /\ \E novos \in BOOLEAN, shuffle_ \in BOOLEAN,
          profile \in {None, Alto, <<"M", "I", "S", "T", "O">>,
                       <<"l", "o", "t", "o">>},
          env_var \in {<<>>, <<" ", "A", "L", "T", "O">>, Misto},
          min_high \in {None} \cup {Some(m) : m \in MinHighs},
          sum_target \in SumTargets,
          bucket_weight \in {None, Some(2)} :
          \E salt \in Salts(novos) :
             Built(BotArgs(BotSeed("2900", "", salt), shuffle_, profile,
                           env_var, min_high, sum_target, None,
                           bucket_weight),
                   shuffle_)

NextCtor == Construct \/ generate_bets_for_concurso

SpecCtor == InitCtor /\ [][NextCtor]_vars

Next ==
    \/ Call
    \/ Draw
    \/ Pick
    \/ TopUp
    \/ Return

Spec == Init /\ [][Next]_vars

(***************************************************************************)
(* A second call of generate on the same objects, with the arguments of    *)
(* the first.  self.rng is created by __init__ and is not reset by         *)
(* generate: the second call reads the stream where the first left it, at  *)
(* positions no call has read before.                                      *)
(***************************************************************************)
\* profile, candidates_per_pick and max_exposure of the objects called twice
ConfigsAgain == {<<Historico, 1, 4>>, <<Historico, 0, 4>>}

\* the two objects are constructed alike, without display_shuffle and
\* with a pool of one ticket at most
InitAgain ==
    /\ \E a \in GenArgs :
          /\ <<a.profile, a.candidates_per_pick, a.max_exposure>>
                \in ConfigsAgain
          /\ a.pop_size <= 1
          /\ ctor = [i \in Instances |-> [a EXCEPT !.display_shuffle = FALSE]]
          /\ gen = [i \in Instances |->
                      GameGenerator([a EXCEPT !.display_shuffle = FALSE])]
          /\ rng = [i \in Instances |-> NewRandom(i, a.seed)]
    /\ run = [i \in Instances |-> IdleRun]
    /\ bot = BotIdle

AtCallAgain(i) == run[i].pc = "returned" /\ run[i].earlier = <<>>

\* entry of the second call: the locals of the first are gone, its result
\* is kept for comparison
CallAgainStep(r) ==
    CallStep([IdleRun EXCEPT !.earlier = Append(r.earlier, r.result)],
             r.n_games, r.balanced)

CallAgain ==
    LET E == {i \in Instances : AtCallAgain(i)}
    IN /\ E # {}
       /\ run' = [i \in Instances |->
                    IF i \in E THEN LoopTest(gen[i], CallAgainStep(run[i]))
                    ELSE run[i]]
       /\ UNCHANGED <<ctor, gen, rng, bot>>

NextAgain ==
    \/ Call
    \/ Draw
    \/ Pick
    \/ TopUp
    \/ Return
    \/ CallAgain

SpecAgain == InitAgain /\ [][NextAgain]_vars

(***************************************************************************)
(* Direct calls of _ticket_ok and _anti_popularity_penalty on a            *)
(* constructed object.  The call is held in run: pc names the method,      *)
(* pool holds the ticket it was given and result the value it returned.    *)
(***************************************************************************)
\* how many of TicketNumbers the tickets of a direct call are made of
MaxNumbers == 9

\* the numbers, in the order the bound takes them: a run (23-24-25), three
\* of one ending (23, 33, 43), three of one decile (41, 43, 50), two
\* multiples of 5, low, middle and high numbers
TicketNumbers == <<23, 24, 25, 33, 41, 43, 50, 58, 12, 5, 60>>

RECURSIVE Ascend(_)
\* the members of S in ascending order
Ascend(S) ==
    IF S = {} THEN <<>>
    ELSE LET m == CHOOSE x \in S : \A y \in S : x <= y
         IN <<m>> \o Ascend(S \ {m})

Reverse(s) == [k \in DOMAIN s |-> s[Len(s) + 1 - k]]

\* the tickets given to the methods: 6 distinct numbers, ascending or
\* descending
TicketArgs ==
    LET U == {TicketNumbers[k] :
                 k \in 1..Min(MaxNumbers, Len(TicketNumbers))}
        sets == {S \in SUBSET U : Cardinality(S) = TicketLen}
    IN {Ascend(S) : S \in sets} \cup {Reverse(Ascend(S)) : S \in sets}

\* the configurations of the objects: the defaults, then one rule or one
\* weight changed
MethodArgs ==
    {DefaultArgs,
     [DefaultArgs EXCEPT !.profile = Alto],
     [DefaultArgs EXCEPT !.profile = Misto],
     [DefaultArgs EXCEPT !.sum_band = <<150, 200>>],
     [DefaultArgs EXCEPT !.min_over31 = 5],
     [DefaultArgs EXCEPT !.odd_range = <<3, 3>>],
     [DefaultArgs EXCEPT !.max_same_decenio = 2],
     [DefaultArgs EXCEPT !.max_same_ending = 1],
     [DefaultArgs EXCEPT !.max_mult5 = 1],
     [DefaultArgs EXCEPT !.min_over31 = 0, !.odd_range = <<0, 6>>,
                         !.max_same_decenio = 6, !.max_same_ending = 6,
                         !.max_mult5 = 6],
     [DefaultArgs EXCEPT !.sum_weight = Some(0), !.bucket_weight = 0],
     [DefaultArgs EXCEPT !.sum_weight = Some(-5)]}

InitMethods ==
    /\ \E a \in MethodArgs :
          /\ ctor = <<a, a>>
          /\ gen = <<GameGenerator(a), GameGenerator(a)>>
          /\ rng = [i \in Instances |-> NewRandom(i, a.seed)]
    /\ run = [i \in Instances |-> IdleRun]
    /\ bot = BotIdle

\* the call name(t) returned value
MethodCall(name, t, value) ==
    [IdleRun EXCEPT !.pc = name, !.pool = <<t>>, !.result = <<value>>]

\* the objects are fresh: no call has been made on them
Fresh == \A i \in Instances : run[i].pc = "idle"

CallTicketOk ==
    /\ Fresh
    /\ \E t \in TicketArgs :
          run' = [i \in Instances |->
                     MethodCall("_ticket_ok", t, _ticket_ok(gen[i], t))]
    /\ UNCHANGED <<ctor, gen, rng, bot>>

CallPenalty ==
    /\ Fresh
    /\ \E t \in TicketArgs :
          run' = [i \in Instances |->
                     MethodCall("_anti_popularity_penalty", t,
                                _anti_popularity_penalty(gen[i], t))]
    /\ UNCHANGED <<ctor, gen, rng, bot>>

NextMethods == CallTicketOk \/ CallPenalty

SpecMethods == InitMethods /\ [][NextMethods]_vars

(***************************************************************************)
(* fetch_megasena (bot.py): the sources of the latest draw, one after the  *)
(* other, and the cache file of the last good answer.                      *)
(***************************************************************************)
\* the clock stops at this hour
MaxHours == 38

MAX_STALE_HOURS == 36

\* "retries: int = 3" of _fetch_json
Retries == 3

\* the hours that can pass between two calls of fetch_megasena
TickHours == {0, 18, 19}

\* the try blocks of fetch_megasena and its cache lookup, in program order
Sources == <<"ALT", "HOME", "MODALIDADE", "SCRAPE", "CACHE">>

\* what one GET brings: a body with the draw ("data"), a well-formed body
\* without it ("empty"), a body the normalisation cannot read
\* ("malformed"), a status other than 200 ("status"), or an exception of
\* the transport ("error")
Responses == {"data", "empty", "malformed", "status", "error"}

\* the block that follows the block of source src
Following(src) ==
    LET k == CHOOSE j \in DOMAIN Sources : Sources[j] = src
    IN Sources[k + 1]

\* _save_last_good(ms) at hour now
_save_last_good(ms, now) == Some([saved_at |-> now, megasena |-> ms])

\* _load_last_good() at hour now: the saved draw, None when there is no
\* file or it is older than MAX_STALE_HOURS
_load_last_good_any_age(cache, now) ==
    IF cache = None THEN None ELSE Some(cache[1].megasena)
_load_last_good(cache, now) ==
    IF cache = None
    THEN None
    ELSE IF now - cache[1].saved_at <= MAX_STALE_HOURS
         THEN Some(cache[1].megasena)
         ELSE None

\* the except clause of a block: log the failure and go on to the next
Failed(b) ==
    [b EXCEPT !.tried = Append(@, <<b.pc, "failed">>),
              !.pc = Following(b.pc), !.attempt = 0]

\* a block that ends without a return and without an exception
FellThrough(b) ==
    [b EXCEPT !.tried = Append(@, <<b.pc, "nothing">>),
              !.pc = Following(b.pc), !.attempt = 0]

\* "return out"
Give(b, ms) ==
    [b EXCEPT !.tried = Append(@, <<b.pc, "returned">>),
              !.pc = "returned", !.attempt = 0, !.out = Some(ms)]

\* "_save_last_good(out)" and "return out"
SaveAndGive(b, ms) ==
    Give([b EXCEPT !.cache = _save_last_good(ms, b.now)], ms)

\* the normalised draw of source src, with or without the draw's numbers
Normalized(src, resp) == [source |-> src, data |-> (resp = "data")]

\* the rest of a block whose _fetch_json returned the body resp
Answered(b, resp) ==
    IF resp = "malformed"
    THEN Failed(b)
    ELSE CASE b.pc = "ALT" ->
                 IF resp = "data"
                 THEN SaveAndGive(b, Normalized("ALT", resp))
                 ELSE Give(b, Normalized("ALT", resp))
           [] b.pc = "HOME" ->
                 IF resp = "data"
                 THEN SaveAndGive(b, Normalized("HOME", resp))
                 ELSE FellThrough(b)
           [] b.pc = "MODALIDADE" ->
                 SaveAndGive(b, Normalized("MODALIDADE", resp))

\* one attempt of _fetch_json: a 200 returns the body; after the last
\* attempt the RuntimeError is caught by the block
GetStep(b, resp) ==
    IF resp \in {"status", "error"}
    THEN IF b.attempt + 1 < Retries
         THEN [b EXCEPT !.attempt = @ + 1]
         ELSE Failed(b)
    ELSE Answered(b, resp)

\* the block of fetch_via_scrape: a single GET
ScrapeStep(b, resp) ==
    IF resp \in {"status", "error", "malformed"}
    THEN Failed(b)
    ELSE IF resp = "data"
         THEN SaveAndGive(b, Normalized("SCRAPE", resp))
         ELSE Give(b, Normalized("SCRAPE", resp))

\* "cached = _load_last_good()", then the return or the RuntimeError
CacheStep(b) ==
    LET cached == _load_last_good(b.cache, b.now)
    IN IF cached # None
       THEN Give(b, cached[1])
       ELSE [b EXCEPT !.tried = Append(@, <<b.pc, "failed">>),
                      !.pc = "raised"]

Resting(b) == b.pc \in {"idle", "returned", "raised"}

InitFetch ==
    /\ ctor = <<DefaultArgs, DefaultArgs>>
    /\ gen = <<GameGenerator(DefaultArgs), GameGenerator(DefaultArgs)>>
    /\ rng = [i \in Instances |-> NewRandom(i, DefaultArgs.seed)]
    /\ run = [i \in Instances |-> IdleRun]
    /\ bot = BotIdle

\* a call of fetch_megasena, d hours after the call before it ended
FetchStart ==
    /\ Resting(bot)
    /\ \E d \in TickHours :
          /\ bot.now + d <= MaxHours
          /\ bot' = [bot EXCEPT !.now = @ + d, !.pc = "ALT", !.attempt = 0,
                                !.tried = <<>>, !.out = None]
    /\ UNCHANGED <<ctor, gen, rng, run>>

Get ==
    /\ bot.pc \in {"ALT", "HOME", "MODALIDADE"}
    /\ \E resp \in Responses : bot' = GetStep(bot, resp)
    /\ UNCHANGED <<ctor, gen, rng, run>>

Scrape ==
    /\ bot.pc = "SCRAPE"
    /\ \E resp \in Responses : bot' = ScrapeStep(bot, resp)
    /\ UNCHANGED <<ctor, gen, rng, run>>

Cache ==
    /\ bot.pc = "CACHE"
    /\ bot' = CacheStep(bot)
    /\ UNCHANGED <<ctor, gen, rng, run>>

NextFetch == FetchStart \/ Get \/ Scrape \/ Cache

SpecFetch == InitFetch /\ [][NextFetch]_vars

(***************************************************************************)
(* check_feed_loop and the commands !programar and !cancelar (bot.py).     *)
(* A step of the poll runs from one await to the next; a command runs      *)
(* between two of them.                                                    *)
(***************************************************************************)
\* the concursos of the feed are 1..MaxConcurso
MaxConcurso == 2

\* the polls and the commands of a behaviour
MaxPolls == 3
MaxCommands == 2

Guilds == {1, 2}

\* ctx.channel.id of a command sent in guild g
ChannelOf(g) == 10 * g

\* the hours that can pass between two polls
PollHours == {0, 24}

\* the day of the draw of concurso c
DrawDay(c) == c - 2

\* dt.datetime.now(TZ).date()
Today(now) == now \div 24

\* what fetch_megasena can return: a draw without a number, or the draw
\* of a concurso, with or without its dezenas, and the date of the next
Feeds ==
    {[numeroDoConcurso |-> None, dezenas |-> FALSE,
      dataProximoConcurso |-> None]}
    \cup {[numeroDoConcurso |-> Some(c), dezenas |-> dz,
            dataProximoConcurso |-> Some(DrawDay(c + 1))] :
              c \in 1..MaxConcurso, dz \in BOOLEAN}

\* load_state() when there is no file
NoState ==
    [channels |-> <<>>, last_processed_concurso |-> None,
     reminder_sent_for |-> {}]

PollIdle ==
    [now |-> 0, cache |-> None, pc |-> "idle", file |-> NoState,
     bets |-> {}, st |-> NoState, ms |-> None, queue |-> <<>>,
     polls |-> 0, cmds |-> 0, sent |-> <<>>]

\* the positions of guild g in the dict channels
KeysOf(channels, g) == {k \in DOMAIN channels : channels[k][1] = g}

\* st["channels"][str(guild)] = str(canal_id)
SetChannel(channels, g, canal) ==
    IF KeysOf(channels, g) = {}
    THEN Append(channels, <<g, canal>>)
    ELSE [k \in DOMAIN channels |->
             IF channels[k][1] = g THEN <<g, canal>> ELSE channels[k]]

\* st["channels"].pop(str(guild), None)
PopChannel(channels, g) ==
    SelectSeq(channels, LAMBDA e : e[1] # g)

\* one more send of the message kind about concurso c to channel ch
TimesSent(sent, key) == IF key \in DOMAIN sent THEN sent[key] ELSE 0
Sent(sent, kind, c, ch) ==
    LET key == <<kind, c, ch>>
    IN [k \in (DOMAIN sent) \cup {key} |->
           IF k = key THEN TimesSent(sent, key) + 1 ELSE sent[k]]

\* the return of the poll
PollDone(b) ==
    [b EXCEPT !.pc = "idle", !.st = NoState, !.ms = None, !.queue = <<>>]

\* "Lembrete no dia do sorteio", up to the first send
ReminderCheck(b) ==
    LET ms == b.ms[1]
        prox_concurso == ms.numeroDoConcurso[1] + 1
    IN IF /\ ms.dataProximoConcurso # None
          /\ Today(b.now) = ms.dataProximoConcurso[1]
          /\ prox_concurso \notin b.st.reminder_sent_for
       THEN [b EXCEPT !.pc = "reminder", !.queue = b.st.channels]
       ELSE PollDone(b)

\* the statements after the sends of the result: the poll records the
\* concurso, forgets the reminder of the next one and saves its state
ResultDone(b) ==
    LET concurso == b.ms[1].numeroDoConcurso[1]
        st == [b.st EXCEPT
                 !.last_processed_concurso = Some(concurso),
                 !.reminder_sent_for = @ \ {concurso + 1}]
    IN ReminderCheck([b EXCEPT !.st = st, !.file = st])

\* the statements after the sends of the reminder
ReminderDone(b) ==
    LET prox_concurso == b.ms[1].numeroDoConcurso[1] + 1
        st == [b.st EXCEPT !.reminder_sent_for = @ \cup {prox_concurso}]
    IN PollDone([b EXCEPT !.st = st, !.file = st])

\* "if st.get('last_processed_concurso') != concurso and ms.get('dezenas')"
IsNew(st, ms) ==
    /\ st.last_processed_concurso # ms.numeroDoConcurso
    /\ ms.dezenas

\* the poll from the answer ms of fetch_megasena to its next await
Fetched(b, ms) ==
    IF ms.numeroDoConcurso = None
    THEN PollDone(b)
    ELSE LET got == [b EXCEPT !.ms = Some(ms)]
         IN IF IsNew(b.st, ms)
            THEN [got EXCEPT !.bets = @ \cup {ms.numeroDoConcurso[1] + 1},
                             !.pc = "result", !.queue = b.st.channels]
            ELSE ReminderCheck(got)

InitPoll ==
    /\ ctor = <<DefaultArgs, DefaultArgs>>
    /\ gen = <<GameGenerator(DefaultArgs), GameGenerator(DefaultArgs)>>
    /\ rng = [i \in Instances |-> NewRandom(i, DefaultArgs.seed)]
    /\ run = [i \in Instances |-> IdleRun]
    /\ bot = PollIdle

\* !programar in guild g
Programar ==
    /\ bot.cmds < MaxCommands
    /\ \E g \in Guilds :
          bot' = [bot EXCEPT
                    !.file.channels = SetChannel(@, g, ChannelOf(g)),
                    !.cmds = @ + 1]
    /\ UNCHANGED <<ctor, gen, rng, run>>

\* !cancelar in guild g
Cancelar ==
    /\ bot.cmds < MaxCommands
    /\ \E g \in Guilds :
          bot' = [bot EXCEPT
                    !.file.channels = PopChannel(@, g),
                    !.cmds = @ + 1]
    /\ UNCHANGED <<ctor, gen, rng, run>>

\* check_feed_loop starts, d hours after the poll before it ended: it
\* loads the state and, when a channel is registered, calls fetch_megasena
PollStart ==
    /\ bot.pc = "idle"
    /\ bot.polls < MaxPolls
    /\ \E d \in PollHours :
          /\ bot.now + d <= MaxHours
          /\ LET b == [bot EXCEPT !.now = @ + d, !.polls = @ + 1]
             IN bot' = IF b.file.channels = <<>>
                       THEN b
                       ELSE [b EXCEPT !.st = b.file, !.pc = "fetch"]
    /\ UNCHANGED <<ctor, gen, rng, run>>

\* fetch_megasena answers from a live source, which saves a draw that has
\* a number or dezenas (MODALIDADE saves any draw)
PollFetchLive ==
    /\ bot.pc = "fetch"
    /\ \E ms \in Feeds, save \in BOOLEAN :
          /\ (ms.numeroDoConcurso # None \/ ms.dezenas) => save
          /\ LET b == IF save
                      THEN [bot EXCEPT
                              !.cache = _save_last_good(ms, bot.now)]
                      ELSE bot
             IN bot' = Fetched(b, ms)
    /\ UNCHANGED <<ctor, gen, rng, run>>

\* no live source answers: fetch_megasena returns the cache or raises,
\* and the poll logs the exception and returns
PollFetchCache ==
    /\ bot.pc = "fetch"
    /\ LET cached == _load_last_good(bot.cache, bot.now)
       IN bot' = IF cached # None
                 THEN Fetched(bot, cached[1])
                 ELSE PollDone(bot)
    /\ UNCHANGED <<ctor, gen, rng, run>>

\* the sends of the result to the next channel, delivered or not
SendResult ==
    /\ bot.pc = "result"
    /\ \E delivered \in BOOLEAN :
          LET ch == Head(bot.queue)[2]
              concurso == bot.ms[1].numeroDoConcurso[1]
              b == [bot EXCEPT
                      !.queue = Tail(@),
                      !.sent = IF delivered
                               THEN Sent(@, "result", concurso, ch)
                               ELSE @]
          IN bot' = IF b.queue = <<>> THEN ResultDone(b) ELSE b
    /\ UNCHANGED <<ctor, gen, rng, run>>

\* the send of the reminder to the next channel, delivered or not
SendReminder ==
    /\ bot.pc = "reminder"
    /\ \E delivered \in BOOLEAN :
          LET ch == Head(bot.queue)[2]
              prox_concurso == bot.ms[1].numeroDoConcurso[1] + 1
              b == [bot EXCEPT
                      !.queue = Tail(@),
                      !.sent = IF delivered
                               THEN Sent(@, "reminder", prox_concurso, ch)
                               ELSE @]
          IN bot' = IF b.queue = <<>> THEN ReminderDone(b) ELSE b
    /\ UNCHANGED <<ctor, gen, rng, run>>

NextPoll ==
    \/ Programar \/ Cancelar \/ PollStart
    \/ PollFetchLive \/ PollFetchCache
    \/ SendResult \/ SendReminder

SpecPoll == InitPoll /\ [][NextPoll]_vars

(***************************************************************************)
(* Properties.                                                             *)
(***************************************************************************)
Returned(i) == run[i].pc = "returned"
Constructed(i) == run[i].pc # "new"

\* the numbers of the tickets of a batch, and whether two tickets share one
Numbers(t) == Range(t)
Overlapping(batch) ==
    \E j, k \in DOMAIN batch :
        j < k /\ Numbers(batch[j]) \cap Numbers(batch[k]) # {}

Ascending(t) == \A k \in 1..(Len(t) - 1) : t[k] < t[k + 1]

\* C1: two generators constructed with the same seed and the same
\* configuration, each given the same generate call, end the same way and
\* return the same batch: the same tickets, in the same order, each in the
\* same display order.
C1_Determinism ==
    (ctor[1] = ctor[2] /\ Returned(1) /\ Returned(2))
        => run[1].result = run[2].result

\* a shuffled batch of two tickets was returned by both objects
C1_Witness ==
    /\ ctor[1] = ctor[2]
    /\ gen[1].DISPLAY_SHUFFLE
    /\ Returned(1) /\ Returned(2)
    /\ Len(run[1].result) = 2
    /\ run[1].result[1] # run[1].selected[1]
    /\ run[1].result = run[2].result

\* C2: no two entries of a returned batch have the same canonical (sorted)
\* six numbers.
C2_NoDuplicateTickets ==
    \A i \in Instances :
        Returned(i) =>
            \A j, k \in DOMAIN run[i].result :
                j < k => sorted(run[i].result[j]) # sorted(run[i].result[k])

\* C3, as claimed: with balanced and n_games*6 <= 60, a returned batch has
\* no number in more than one ticket or has fewer than n_games tickets.
C3_CapOrShortfall ==
    \A i \in Instances :
        (Returned(i) /\ run[i].balanced /\ run[i].n_games * 6 <= 60)
            => \/ ~Overlapping(run[i].result)
               \/ Len(run[i].result) < run[i].n_games

\* C3, amended: with balanced and n_games*6 <= 60, a returned batch has no
\* number in more than one ticket, or has fewer than n_games tickets, or
\* holds a ticket that the second pass picked, ignoring the cap, because
\* the window of its slot had no feasible ticket.
C3_CapOrShortfallOrFallback ==
    \A i \in Instances :
        (Returned(i) /\ run[i].balanced /\ run[i].n_games * 6 <= 60)
            => \/ ~Overlapping(run[i].result)
               \/ Len(run[i].result) < run[i].n_games
               \/ run[i].fallbacks > 0

\* a full balanced batch of two tickets sharing a number, the second of
\* them picked by the second pass
C3_Witness ==
    /\ Returned(1) /\ run[1].balanced /\ run[1].n_games = 2
    /\ Len(run[1].result) = 2
    /\ Overlapping(run[1].result)
    /\ Numbers(run[1].result[1]) # Numbers(run[1].result[2])
    /\ run[1].fallbacks = 1

\* C4: while the pool is built, and after, every ticket in candidates is a
\* sorted tuple of 6 distinct integers of 1..60 that _ticket_ok accepts
\* under the generator's configuration, and no ticket is in it twice.
C4_PoolValid ==
    \A i \in Instances :
        Constructed(i) =>
            LET c == run[i].candidates
            IN /\ \A k \in DOMAIN c :
                     /\ Len(c[k]) = 6
                     /\ Ascending(c[k])
                     /\ Range(c[k]) \subseteq NUMBERS
                     /\ _ticket_ok(gen[i], c[k])
               /\ \A j, k \in DOMAIN c : j # k => c[j] # c[k]

\* the pool holds one ticket, the other draws were rejected or repeated
C4_Witness ==
    /\ run[1].pc = "build"
    /\ Len(run[1].candidates) = 1
    /\ run[1].tries >= 4

\* C5: generate never ends by raising when candidates_per_pick is not
\* negative, never holds more than n_games selected tickets, and returns
\* at most n_games tickets; with n_games = 0 it returns the empty batch.
C5_AtMostNGames ==
    \A i \in Instances :
        Constructed(i) =>
            /\ gen[i].CANDIDATES_PER_PICK >= 0 => run[i].pc # "raised"
            /\ Len(run[i].selected) <= run[i].n_games
            /\ Returned(i) => Len(run[i].result) <= run[i].n_games
            /\ (Returned(i) /\ run[i].n_games = 0) => run[i].result = <<>>

\* a call with n_games = 0 returned over a pool that holds tickets
C5_Witness ==
    /\ Returned(1) /\ run[1].n_games = 0
    /\ run[1].candidates # <<>>
    /\ run[1].result = <<>>

\* C6: when n_games is larger than the number of tickets in the candidate
\* pool, generate returns a batch of fewer than n_games tickets.
C6_ShortfallOnSmallPool ==
    \A i \in Instances :
        /\ gen[i].CANDIDATES_PER_PICK >= 0 => run[i].pc # "raised"
        /\ (Returned(i) /\ run[i].n_games > Len(run[i].candidates))
              => Len(run[i].result) < run[i].n_games

\* C7: every returned ticket holds exactly the six values of the ticket
\* selected for its slot, and without display_shuffle they are ascending.
C7_DisplayIsPermutation ==
    \A i \in Instances :
        Returned(i) =>
            /\ Len(run[i].result) = Len(run[i].selected)
            /\ \A k \in DOMAIN run[i].result :
                  /\ Len(run[i].result[k]) = 6
                  /\ Numbers(run[i].result[k]) = Numbers(run[i].selected[k])
                  /\ ~gen[i].DISPLAY_SHUFFLE => Ascending(run[i].result[k])

\* object 1 returned a ticket in another order than the canonical one,
\* object 2, without display_shuffle, the canonical one
C7_Witness ==
    /\ Returned(1) /\ Returned(2)
    /\ gen[1].DISPLAY_SHUFFLE /\ ~gen[2].DISPLAY_SHUFFLE
    /\ Len(run[1].result) = 2
    /\ run[1].result[1] # run[1].selected[1]
    /\ run[2].result[1] = run[2].selected[1]

\* C8: two generators that differ in display_shuffle only, given the same
\* call, hold the same candidate pool and the same selected tickets, in the
\* same order, at every step and when they return.
C8_ShuffleIsCosmetic ==
    (/\ ctor[1].display_shuffle # ctor[2].display_shuffle
     /\ [ctor[1] EXCEPT !.display_shuffle = TRUE]
           = [ctor[2] EXCEPT !.display_shuffle = TRUE])
        => /\ run[1].candidates = run[2].candidates
           /\ run[1].selected = run[2].selected
           /\ run[1].pc = "returned" <=> run[2].pc = "returned"

\* both returned two tickets, one object shuffled, the other did not
C8_Witness ==
    /\ ctor[1].display_shuffle /\ ~ctor[2].display_shuffle
    /\ Returned(1) /\ Returned(2)
    /\ Len(run[1].selected) = 2
    /\ run[1].selected[1] # run[1].selected[2]
    /\ run[1].result # run[2].result
    /\ run[1].selected = run[2].selected

\* the profile default of min-high: 3 for alto, 1 for historico and misto
MinHighDefault(name) == IF strip(lower(name)) = Alto THEN 3 ELSE 1

\* C9: the resolved minimum-high count is the larger of the min_high given
\* to the constructor and the profile default, so it is never below the
\* profile default.
C9_MinHighFloored ==
    \A i \in Instances :
        Constructed(i) =>
            LET d == MinHighDefault(ctor[i].profile)
                m == ctor[i].min_high
            IN /\ gen[i].MIN_HIGH = IF m >= d THEN m ELSE d
               /\ gen[i].MIN_HIGH >= d

\* profile alto constructed with min_high = 1 resolves to 3
C9_Witness ==
    /\ Constructed(1)
    /\ gen[1].PROFILE = Alto
    /\ ctor[1].min_high = 1
    /\ gen[1].MIN_HIGH = 3

\* C10: a profile name that, lower-cased and trimmed, is neither misto nor
\* alto resolves to the historico defaults wherever no override is given:
\* sum target 145, sum weight 0.15, bucket target (0.33, 0.33, 0.34),
\* min-high 1.
C10_UnknownIsHistorico ==
    \A i \in Instances :
        (Constructed(i) /\ strip(lower(ctor[i].profile)) \notin {Misto, Alto})
            => /\ ctor[i].sum_target = None => gen[i].SUM_TARGET = 145
               /\ ctor[i].sum_weight = None => gen[i].SUM_WEIGHT = 15
               /\ ctor[i].bucket_target = None
                     => gen[i].BUCKET_TARGET = <<99, 99, 102>>
               /\ ctor[i].min_high <= 1 => gen[i].MIN_HIGH = 1

\* an unknown name, with no override, resolved to the historico defaults
C10_Witness ==
    /\ Constructed(1)
    /\ ctor[1].profile = <<"l", "o", "t", "o">>
    /\ ctor[1].sum_target = None /\ ctor[1].sum_weight = None
    /\ ctor[1].bucket_target = None /\ ctor[1].min_high = 1
    /\ gen[1].SUM_TARGET = 145 /\ gen[1].SUM_WEIGHT = 15
    /\ gen[1].BUCKET_TARGET = <<99, 99, 102>> /\ gen[1].MIN_HIGH = 1

\* the pool-building loop of object i is over
PoolBuilt(i) ==
    run[i].pc \in {"select", "topup", "output", "returned", "raised"}

\* how many members of the set S of numbers are in the set T
Members(S, T) == Cardinality(S \cap T)

\* the rules, by number, that reject the set S of six numbers under the
\* configuration self
Rejections(self, S) ==
    LET total == SumSet(S, [x \in S |-> x])
        odd == Members(S, {x \in NUMBERS : x % 2 = 1})
    IN {n \in 1..8 :
          \/ n = 1 /\ self.SUM_BAND # None
                   /\ (total < self.SUM_BAND[1] \/ total > self.SUM_BAND[2])
          \/ n = 2 /\ Members(S, 32..60) < self.MIN_OVER_31
          \/ n = 3 /\ Members(S, 41..60) < self.MIN_HIGH
          \/ n = 4 /\ (odd < self.ODD_RANGE[1] \/ odd > self.ODD_RANGE[2])
          \/ n = 5 /\ \E g \in 0..5 :
                         Members(S, (10 * g + 1)..(10 * g + 10))
                            > self.MAX_SAME_DECENIO
          \/ n = 6 /\ \E d \in 0..9 :
                         Members(S, {x \in NUMBERS : x % 10 = d})
                            > self.MAX_SAME_ENDING
          \/ n = 7 /\ Members(S, {x \in NUMBERS : x % 5 = 0})
                         > self.MAX_MULT_5
          \/ n = 8 /\ \E x \in S : x + 1 \in S /\ x + 2 \in S}

\* C11: for every ticket of six numbers, in any order, _ticket_ok returns
\* a boolean, and returns false exactly when one of the eight rules
\* rejects the ticket: sum band, count over 31, count of 41 and more, odd
\* count, decile, ending, multiples of 5, three consecutive numbers.
C11_TicketOkExact ==
    \A i \in Instances :
        run[i].pc = "_ticket_ok" =>
            /\ run[i].result[1] \in BOOLEAN
            /\ run[i].result[1]
                  = (Rejections(gen[i], Range(run[i].pool[1])) = {})

\* a ticket given in descending order was rejected for its run of three
\* consecutive numbers alone
C11_Witness ==
    /\ run[1].pc = "_ticket_ok"
    /\ run[1].pool[1][1] > run[1].pool[1][2]
    /\ Rejections(gen[1], Range(run[1].pool[1])) = {8}
    /\ run[1].result = <<FALSE>>

\* |a - b|
Distance(a, b) == IF a >= b THEN a - b ELSE b - a

\* the four terms of the penalty that do not depend on sum_weight, in
\* units of 1/PenScale: buckets, endings, deciles, multiples of 5
OtherTerms(self, S) ==
    LET bucket(b) == Members(S, (20 * b - 19)..(20 * b))
        dist == SumSet(1..3, [b \in 1..3 |->
                          Distance(50 * bucket(b), self.BUCKET_TARGET[b])])
        ending == SumSet(0..9, [d \in 0..9 |->
                     Max(0, Members(S, {x \in NUMBERS : x % 10 = d}) - 1)])
        decile == SumSet(0..5, [g \in 0..5 |->
                     Max(0, Members(S, (10 * g + 1)..(10 * g + 10)) - 2)])
        mult5 == Max(0, Members(S, {x \in NUMBERS : x % 5 = 0}) - 2)
    IN self.BUCKET_WEIGHT * dist + 1800 * ending + 2400 * decile
       + 3000 * mult5

\* sum_weight * |total - sum_target| / 60, in units of 1/PenScale
SumTerm(self, S) ==
    self.SUM_WEIGHT * Distance(SumSet(S, [x \in S |-> x]), self.SUM_TARGET)

\* C12, as claimed: the penalty of every ticket is the sum of the five
\* terms, and it is not negative when sum_weight and bucket_weight are not.
C12_PenaltyIsFiveTerms ==
    \A i \in Instances :
        run[i].pc = "_anti_popularity_penalty" =>
            LET S == Range(run[i].pool[1])
            IN /\ run[i].result[1] = SumTerm(gen[i], S) + OtherTerms(gen[i], S)
               /\ (gen[i].SUM_WEIGHT >= 0 /\ gen[i].BUCKET_WEIGHT >= 0)
                     => run[i].result[1] >= 0

\* C12, amended: the penalty of every ticket is the sum of the five terms,
\* the sum term being counted only when sum_weight is positive, and it is
\* not negative when bucket_weight is not.
C12_PenaltyIsFiveTermsGuarded ==
    \A i \in Instances :
        run[i].pc = "_anti_popularity_penalty" =>
            LET S == Range(run[i].pool[1])
                sum_term == IF gen[i].SUM_WEIGHT > 0 THEN SumTerm(gen[i], S)
                            ELSE 0
            IN /\ run[i].result[1] = sum_term + OtherTerms(gen[i], S)
               /\ gen[i].BUCKET_WEIGHT >= 0 => run[i].result[1] >= 0

\* the penalty of a ticket under a negative sum_weight: the sum term,
\* which would be negative, is left out
C12_Witness ==
    /\ run[1].pc = "_anti_popularity_penalty"
    /\ gen[1].SUM_WEIGHT < 0
    /\ SumTerm(gen[1], Range(run[1].pool[1])) < 0
    /\ run[1].result[1] = OtherTerms(gen[1], Range(run[1].pool[1]))
    /\ run[1].result[1] > 0

\* C13: pool building makes at most pop_size*50 draws, every draw counted,
\* goes on only while the pool holds fewer than pop_size tickets, and ends,
\* without raising, with at most pop_size tickets: on a full pool or on
\* the last draw of the budget.
C13_PoolBuildBounded ==
    [][\A i \in Instances :
          /\ Len(run'[i].candidates) <= Max(0, gen[i].POP_SIZE)
          /\ run[i].pc = "build" =>
                /\ run[i].tries < gen[i].POP_SIZE * 50
                /\ Len(run[i].candidates) < gen[i].POP_SIZE
                /\ \/ run'[i] = run[i]
                   \/ /\ run'[i].pc = "build"
                      /\ run'[i].tries = run[i].tries + 1
                   \/ /\ run'[i].pc \in {"select", "topup"}
                      /\ \/ Len(run'[i].candidates) = gen[i].POP_SIZE
                         \/ run[i].tries + 1 = gen[i].POP_SIZE * 50]_vars

\* the loop ended on its budget with one ticket where two were asked
C13_Witness ==
    /\ PoolBuilt(1)
    /\ gen[1].POP_SIZE = 2
    /\ Len(run[1].candidates) = 1

\* C14: whatever max_exposure the object was constructed with, zero and
\* negative included, and whatever n_games and balanced, the divisor of
\* the exposure term of the score is at least 1.
C14_DivisorAtLeastOne ==
    \A i \in Instances :
        Constructed(i) =>
            /\ \A n \in GamesArgs, b \in BOOLEAN :
                  ExposureDivisor(LocalMaxExp(gen[i], n, b)) >= 1
            /\ PoolBuilt(i) => ExposureDivisor(run[i].local_max_exp) >= 1

\* two tickets were scored and picked under a negative cap, the second
\* with numbers already exposed
C14_Witness ==
    /\ Returned(1)
    /\ gen[1].MAX_EXPOSURE < 0
    /\ run[1].local_max_exp < 0
    /\ Len(run[1].selected) = 2
    /\ run[1].exposure # <<>>

\* C15: a second generate call with the same arguments on the same object
\* returns the batch the first call returned.
C15_SecondCallSame ==
    \A i \in Instances :
        (Returned(i) /\ run[i].earlier # <<>>)
            => run[i].result = run[i].earlier[1]

\* this step is an iteration of the main loop of object i that picked
PickedInMainLoop(i) ==
    /\ run[i].pc = "select"
    /\ run'[i].slot = run[i].slot + 1

\* the positions of window w whose ticket has every number exposed less
\* than the cap, by the counters exp
FeasibleIn(w, exp, cap) ==
    {k \in DOMAIN w : \A x \in Range(w[k]) : Exposure(exp, x) < cap}

\* C17: in a slot of the main loop whose window holds a feasible ticket,
\* the pick is a feasible ticket of the highest score among the feasible
\* ones; the second pass chooses the pick exactly when the window holds no
\* feasible ticket.
C17_FeasibleFirst ==
    [][\A i \in Instances :
          PickedInMainLoop(i) =>
             LET r == run[i]
                 w == run'[i].pool
                 b == run'[i].best
                 F == FeasibleIn(w, r.exposure, r.local_max_exp)
             IN /\ F # {} =>
                      \E k \in F :
                         /\ w[k] = b
                         /\ \A j \in F :
                               score(gen[i], r, w[j]) <= score(gen[i], r, b)
                /\ (run'[i].fallbacks > r.fallbacks) <=> (F = {})]_vars

\* the second slot of a balanced call passed over the ticket of the first
\* slot, no longer feasible, and picked the other ticket of its window
C17_Witness ==
    /\ run[1].balanced /\ run[1].slot = 2
    /\ Len(run[1].pool) = 2
    /\ run[1].pool[1] = run[1].selected[1]
    /\ run[1].best = run[1].pool[2]
    /\ run[1].selected[2] = run[1].pool[2]
    /\ run[1].fallbacks = 0

\* C18, as claimed: a ticket picked by the first pass has, after its
\* inclusion, every number exposed strictly less than the local cap.
C18_BelowCapAfterPick ==
    [][\A i \in Instances :
          (PickedInMainLoop(i) /\ run'[i].fallbacks = run[i].fallbacks) =>
             \A x \in Range(run'[i].best) :
                Exposure(run'[i].exposure, x) < run[i].local_max_exp]_vars

\* C18, amended: a ticket picked by the first pass had, before its
\* inclusion, every number exposed strictly less than the local cap; after
\* its inclusion every number of it is exposed at most the cap.
C18_BelowCapBeforePick ==
    [][\A i \in Instances :
          (PickedInMainLoop(i) /\ run'[i].fallbacks = run[i].fallbacks) =>
             \A x \in Range(run'[i].best) :
                /\ Exposure(run[i].exposure, x) < run[i].local_max_exp
                /\ Exposure(run'[i].exposure, x) <= run[i].local_max_exp]_vars

\* the first pass picked the first ticket of a balanced call: its numbers
\* are now exposed once, which is the cap
C18_Witness ==
    /\ run[1].balanced /\ run[1].local_max_exp = 1
    /\ Len(run[1].selected) = 1
    /\ run[1].fallbacks = 0
    /\ \A x \in Range(run[1].selected[1]) : Exposure(run[1].exposure, x) = 1

\* C19: the pick of a slot is the first ticket, in the order of the
\* window, among the tickets its pass scans that have the highest score of
\* the pass.
C19_FirstMaxWins ==
    [][\A i \in Instances :
          PickedInMainLoop(i) =>
             LET r == run[i]
                 w == run'[i].pool
                 scanned == IF run'[i].fallbacks > r.fallbacks THEN DOMAIN w
                            ELSE FeasibleIn(w, r.exposure, r.local_max_exp)
                 top == {k \in scanned :
                           \A j \in scanned :
                              score(gen[i], r, w[j]) <= score(gen[i], r, w[k])}
             IN /\ top # {}
                /\ run'[i].best = w[CHOOSE k \in top : \A j \in top : k <= j]]_vars

\* the first slot had a window of two tickets of equal score (nothing is
\* covered yet, and their penalties are equal) and picked the first
C19_Witness ==
    /\ run[1].slot = 1 /\ Len(run[1].selected) = 1
    /\ Len(run[1].pool) = 2
    /\ run[1].pool[1] # run[1].pool[2]
    /\ _anti_popularity_penalty(gen[1], run[1].pool[1])
          = _anti_popularity_penalty(gen[1], run[1].pool[2])
    /\ run[1].best = run[1].pool[1]

\* the subsets of n numbers of ticket t, each as an ascending tuple
SubsetsOf(t, n) ==
    {Ascend(S) : S \in {X \in SUBSET Range(t) : Cardinality(X) = n}}

\* C20: once selection has started, covered_pairs is the set of the pairs
\* and covered_triples the set of the triples of the tickets in selected,
\* and exposure[x] is the number of tickets in selected that hold x, for
\* every x of 1..60.
C20_CoverageAccounts ==
    \A i \in Instances :
        PoolBuilt(i) =>
            LET sel == run[i].selected
            IN /\ run[i].covered_pairs
                     = UNION {SubsetsOf(sel[k], 2) : k \in DOMAIN sel}
               /\ run[i].covered_triples
                     = UNION {SubsetsOf(sel[k], 3) : k \in DOMAIN sel}
               /\ \A x \in NUMBERS :
                     Exposure(run[i].exposure, x)
                        = Cardinality({k \in DOMAIN sel : x \in Range(sel[k])})

\* two different tickets that share the number 5 were picked
C20_Witness ==
    /\ PoolBuilt(1)
    /\ Len(run[1].selected) = 2
    /\ run[1].selected[1] # run[1].selected[2]
    /\ Exposure(run[1].exposure, 5) = 2
    /\ Cardinality(run[1].covered_pairs) = 29

\* the blocks before position k of the log all ended without a result
NoResultBefore(log, k) ==
    \A j \in 1..(k - 1) : log[j][2] \in {"failed", "nothing"}

\* C16: fetch_megasena consults ALT, HOME, MODALIDADE, the scrape and the
\* cache in this order, each only after every earlier one gave no result;
\* it returns the cache only when the four live sources gave no result and
\* the entry is at most 36 hours old; it raises only when the four live
\* sources gave no result and there is no entry of at most 36 hours.
C16_FetchOrder ==
    LET log == bot.tried
    IN /\ \A k \in DOMAIN log :
             /\ k <= Len(Sources) /\ log[k][1] = Sources[k]
             /\ NoResultBefore(log, k)
       /\ bot.pc \in Range(Sources) =>
             /\ bot.pc = Sources[Len(log) + 1]
             /\ NoResultBefore(log, Len(log) + 1)
       /\ (bot.pc = "returned" /\ log[Len(log)][1] = "CACHE") =>
             /\ Len(log) = 5
             /\ bot.cache # None
             /\ bot.now - bot.cache[1].saved_at <= 36
             /\ bot.out = Some(bot.cache[1].megasena)
       /\ bot.pc = "raised" =>
             /\ Len(log) = 5 /\ NoResultBefore(log, 6)
             /\ \/ bot.cache = None
                \/ bot.now - bot.cache[1].saved_at > 36

\* the four live sources failed and the call returned an entry saved
\* exactly 36 hours before
C16_Witness ==
    /\ bot.pc = "returned"
    /\ Len(bot.tried) = 5
    /\ bot.tried[5] = <<"CACHE", "returned">>
    /\ bot.tried[2] = <<"HOME", "nothing">>
    /\ bot.now - bot.cache[1].saved_at = 36

C22_CommandsKept ==
    [][bot'.cmds = bot.cmds => bot'.file.channels = bot.file.channels]_vars

\* C23: the result of a concurso is sent to a channel at most once.
C23_ResultOnce ==
    \A key \in DOMAIN bot.sent :
        key[1] = "result" => bot.sent[key] <= 1

\* C24: the reminder of a concurso is sent to a channel at most once.
C24_ReminderOnce ==
    \A key \in DOMAIN bot.sent :
        key[1] = "reminder" => bot.sent[key] <= 1

====
